---- MODULE Spec2Model ----
(***************************************************************************)
(* Model of the Google Ads agent: the analytics core (src/ads_agent.py),   *)
(* the window (src/gui_app.py) and the settings file                       *)
(* (src/config_manager.py), each with a specification of its own: Spec,    *)
(* SpecAccount, SpecGui, SpecSettings.                                     *)
(*                                                                         *)
(* A call of an analyzer is one step: the state before the step holds the  *)
(* argument (arg, and df, the very same frame object, which the analyzers  *)
(* change in place), the state after it holds the returned value (result)  *)
(* or the exception that left the function (raised).                       *)
(*                                                                         *)
(* Values.  A Python / pandas scalar is a record [t, n, d, s]:             *)
(*   t = "num"     the finite number n / d  (d > 0)                        *)
(*   t = "numstr"  a string holding the decimal text of n (MessageToDict   *)
(*                 renders int64 fields this way)                          *)
(*   t = "str"     the string s, which is not the text of a number         *)
(*   t = "nan"     float NaN (also pandas' filler for a missing cell)      *)
(*   t = "none"    None                                                    *)
(*   t = "list"    a list object (float() raises TypeError)                *)
(*   t = "bigint"  an int beyond the float range (float() raises           *)
(*                 OverflowError)                                          *)
(* A table is [cols, rows]: the set of column names and the sequence of    *)
(* rows, each a function from cols to scalars.                             *)
(***************************************************************************)
EXTENDS Integers, Sequences, FiniteSets, TLC

VARIABLES kind, arg, args, df, losers, result, raised, pc

\* analyze_account and the presentation of its result
VARIABLES apc, astep, queries, analyzed, parts, aresult, aerror, rpc, view, rraised

\* the window: its widgets, its threads and the event queue of Tk
VARIABLES run_btn, credentials, oauth, signins, workers, events, reenabled,
          laststatus

\* the settings file and the objects load_settings deals with
VARIABLES file, written, heap, ret, lraised, touched

call_vars == <<kind, arg, args, df, losers, result, raised, pc>>

acct_vars == <<apc, astep, queries, analyzed, parts, aresult, aerror, rpc, view, rraised>>

gui_vars == <<run_btn, credentials, oauth, signins, workers, events, reenabled,
              laststatus>>

file_vars == <<file, written, heap, ret, lraised, touched>>

vars == <<call_vars, acct_vars, gui_vars, file_vars>>

-----------------------------------------------------------------------------
(* Bounds of the model *)

MaxRows == 3

MaxHour == 3

MaxBulk == 27

MaxKeys == 2

MaxNest == 2

\* analyses started in one session of the window, and sign-ins
MaxRuns == 2

MaxSignIns == 1

\* members of a settings file, keys of a settings dict
MaxMembers == 2

-----------------------------------------------------------------------------
(* Scalars *)

Num(n) == [t |-> "num", n |-> n, d |-> 1, s |-> ""]

Frac(n, d) == [t |-> "num", n |-> n, d |-> d, s |-> ""]

NumStr(n) == [t |-> "numstr", n |-> n, d |-> 1, s |-> ""]

Str(s) == [t |-> "str", n |-> 0, d |-> 1, s |-> s]

NaN == [t |-> "nan", n |-> 0, d |-> 1, s |-> ""]

PyNone == [t |-> "none", n |-> 0, d |-> 1, s |-> ""]

PyList == [t |-> "list", n |-> 0, d |-> 1, s |-> ""]

BigInt == [t |-> "bigint", n |-> 0, d |-> 1, s |-> ""]

IsNum(x) == x.t = "num"

IsNaN(x) == x.t = "nan"

\* Comparisons of floats: every comparison with NaN is False.  Operands with
\* the same denominator are compared on their numerators.
FGe(x, y) ==
    /\ IsNum(x)
    /\ IsNum(y)
    /\ IF x.d = y.d THEN x.n >= y.n ELSE x.n * y.d >= y.n * x.d

FGt(x, y) ==
    /\ IsNum(x)
    /\ IsNum(y)
    /\ IF x.d = y.d THEN x.n > y.n ELSE x.n * y.d > y.n * x.d

FEq(x, y) ==
    /\ IsNum(x)
    /\ IsNum(y)
    /\ IF x.d = y.d THEN x.n = y.n ELSE x.n * y.d = y.n * x.d

\* Python truthiness of a scalar: zero, the empty string and None are false;
\* NaN is true.
Truthy(x) ==
    CASE x.t = "num" -> x.n # 0
      [] x.t = "none" -> FALSE
      [] x.t = "str" -> x.s # ""
      [] OTHER -> TRUE

\* Python's  a or b
PyOr(a, b) == IF Truthy(a) THEN a ELSE b

\* pd.to_numeric(column, errors="coerce") on one cell
ToNumeric(x) ==
    CASE x.t = "num" -> x
      [] x.t = "numstr" -> Num(x.n)
      [] OTHER -> NaN

\* int(x) of a finite float: truncation toward zero (x >= 0 here)
PyInt(x) == x.n \div x.d

\* float(a) / float(b), b # 0
FDiv(a, b) == Frac(a.n * b.d, a.d * b.n)

\* a pandas Series division followed by .replace([inf, -inf], nan):
\* 0/0 is NaN, x/0 is +-inf and is replaced by NaN
SeriesDiv(a, b) ==
    IF IsNum(a) /\ IsNum(b) /\ b.n # 0 THEN FDiv(a, b) ELSE NaN

-----------------------------------------------------------------------------
(* micros_to_currency *)

MICROS == 1000000

\* float(value): the exception it raises, "" when it returns
FloatRaises(value) ==
    CASE value.t \in {"none", "list"} -> "TypeError"
      [] value.t = "str" -> "ValueError"
      [] value.t = "bigint" -> "OverflowError"
      [] OTHER -> ""

\* The outcome of micros_to_currency(value): [exc, val]
micros_to_currency(value) ==
    LET e == FloatRaises(value) IN
    IF e = "" THEN
        [exc |-> "",
         val |-> IF value.t = "nan" THEN NaN ELSE Frac(value.n, value.d * MICROS)]
    ELSE IF e \in {"ValueError", "TypeError"} THEN
        [exc |-> "", val |-> NaN]
    ELSE
        [exc |-> e, val |-> NaN]

-----------------------------------------------------------------------------
(* Tables *)

HOUR == "segments.hour"

CLICKS == "metrics.clicks"

IMPRESSIONS == "metrics.impressions"

CONVERSIONS == "metrics.conversions"

COST_MICROS == "metrics.cost_micros"

COST == "cost"

EmptyFrame == [cols |-> {}, rows |-> <<>>]

\* pd.DataFrame([{}]): one row, no columns
BlankFrame == [cols |-> {}, rows |-> << <<>> >>]

MutIsEmpty(t) == t.cols = {}

\* DataFrame.empty: no rows or no columns
IsEmpty(t) == Len(t.rows) = 0 \/ t.cols = {}

\* df[col] = pd.to_numeric(df[col], errors="coerce") for an existing column
CoerceColumn(t, col) ==
    [t EXCEPT !.rows =
        [i \in 1..Len(t.rows) |->
            [c \in t.cols |->
                IF c = col THEN ToNumeric(t.rows[i][c]) ELSE t.rows[i][c]]]]

\* for col in cols: if col in df.columns: df[col] = pd.to_numeric(df[col], errors="coerce")
RECURSIVE CoerceColumns(_, _)
CoerceColumns(t, cols) ==
    IF cols = <<>> THEN t
    ELSE LET c == Head(cols)
             u == IF c \in t.cols THEN CoerceColumn(t, c) ELSE t
         IN CoerceColumns(u, Tail(cols))

CostOf(x) == micros_to_currency(x).val

\* df["cost"] = df["metrics.cost_micros"].apply(micros_to_currency)
AddCostColumn(t) ==
    [cols |-> t.cols \cup {COST},
     rows |-> [i \in 1..Len(t.rows) |->
                [c \in t.cols \cup {COST} |->
                    IF c = COST THEN CostOf(t.rows[i][COST_MICROS]) ELSE t.rows[i][c]]]]

\* ascending sequence of the members of a finite set of integers
RECURSIVE SortedSeq(_)
SortedSeq(S) ==
    IF S = {} THEN <<>>
    ELSE LET m == CHOOSE x \in S : \A y \in S : x <= y
         IN <<m>> \o SortedSeq(S \ {m})

\* Series.sum() of column col over the rows whose hour is h: NaN cells are
\* skipped, and a group with no number sums to 0
RECURSIVE GroupSum(_, _, _)
GroupSum(rows, col, h) ==
    IF rows = <<>> THEN 0
    ELSE LET r == Head(rows)
             v == IF IsNum(r[HOUR]) /\ r[HOUR].n = h /\ IsNum(r[col]) THEN r[col].n ELSE 0
         IN v + GroupSum(Tail(rows), col, h)

\* insertion of x into an ascending sequence
RECURSIVE InsertSorted(_, _)
InsertSorted(x, s) ==
    IF s = <<>> THEN <<x>>
    ELSE IF x <= Head(s) THEN <<x>> \o s
    ELSE <<Head(s)>> \o InsertSorted(x, Tail(s))

RECURSIVE SortInts(_)
SortInts(s) == IF s = <<>> THEN <<>> ELSE InsertSorted(Head(s), SortInts(Tail(s)))

\* Series.median() of a non-empty series of integers: the middle value, or the
\* mean of the two middle values
Median(s) ==
    LET o == SortInts(s)
        k == Len(o)
    IN IF k % 2 = 1 THEN Num(o[(k + 1) \div 2])
       ELSE Frac(o[k \div 2] + o[k \div 2 + 1], 2)

-----------------------------------------------------------------------------
(* analyze_hourly *)

HourlyNumeric == <<CLICKS, IMPRESSIONS, CONVERSIONS, COST_MICROS, HOUR>>

AggColumns == {CLICKS, IMPRESSIONS, CONVERSIONS, COST_MICROS}

NO_HOURLY == "No hourly data returned."

ACTION_SPIKE == "Clicks at hour {h}:00 are {r:.1f}x the median of other hours"

ACTION_FRAUD == "Enable/verify click-fraud protection and tighten geo targeting"

\* f"{x:.1f}": the number of tenths nearest to x
Tenths(x) == (20 * x.n + x.d) \div (2 * x.d)

\* groupby(hour).agg(sum).reset_index().sort_values(hour), then the derived
\* columns cost, ctr, cvr.  Rows whose hour is NaN belong to no group.
Grouped(t) ==
    LET hours == SortedSeq({t.rows[i][HOUR].n : i \in {j \in 1..Len(t.rows) : IsNum(t.rows[j][HOUR])}})
        G(h) ==
            LET clicks == Num(GroupSum(t.rows, CLICKS, h))
                imps == Num(GroupSum(t.rows, IMPRESSIONS, h))
                conv == Num(GroupSum(t.rows, CONVERSIONS, h))
                micros == Num(GroupSum(t.rows, COST_MICROS, h))
            IN [hour |-> h, clicks |-> clicks, impressions |-> imps,
                conversions |-> conv, cost_micros |-> micros,
                cost |-> CostOf(micros),
                ctr |-> SeriesDiv(clicks, imps),
                cvr |-> SeriesDiv(conv, clicks)]
    IN [i \in 1..Len(hours) |-> G(hours[i])]

MutSpikeGuard(spike_ratio, first_hour_clicks, min_clicks, spike_ratio_threshold) ==
    /\ Truthy(spike_ratio)
    /\ FGe(spike_ratio, spike_ratio_threshold)

\* the spike condition of the actions list
SpikeGuard(spike_ratio, first_hour_clicks, min_clicks, spike_ratio_threshold) ==
    /\ Truthy(spike_ratio)
    /\ FGe(spike_ratio, spike_ratio_threshold)
    /\ first_hour_clicks >= min_clicks

MutRatioGuard(rest_median) == FGe(rest_median, Num(0))

\* the guard of the spike_ratio division:  rest_median and rest_median > 0
RatioGuard(rest_median) == Truthy(rest_median) /\ FGt(rest_median, Num(0))

MutFirstActiveHour(grouped) ==
    LET active_hours == {grouped[i].hour : i \in {j \in 1..Len(grouped) : FGt(grouped[j].clicks, Num(0))}}
    IN IF active_hours # {}
       THEN PyInt(Num(CHOOSE h \in active_hours : \A g \in active_hours : h >= g))
       ELSE 0

\* first_active_hour: the lowest hour with clicks, 0 when there is none
FirstActiveHour(grouped) ==
    LET active_hours == {grouped[i].hour : i \in {j \in 1..Len(grouped) : FGt(grouped[j].clicks, Num(0))}}
    IN IF active_hours # {}
       THEN PyInt(Num(CHOOSE h \in active_hours : \A g \in active_hours : h <= g))
       ELSE 0

MutRestClicks(grouped, first_active_hour) == [i \in 1..Len(grouped) |-> grouped[i]]

\* grouped.loc[grouped[hour] != first_active_hour, clicks]
RestClicks(grouped, first_active_hour) ==
    SelectSeq([i \in 1..Len(grouped) |-> grouped[i]],
              LAMBDA g : g.hour # first_active_hour)

RECURSIVE SumClicks(_)
SumClicks(gs) == IF gs = <<>> THEN 0 ELSE Head(gs).clicks.n + SumClicks(Tail(gs))

ClicksOf(gs) == [i \in 1..Len(gs) |-> gs[i].clicks.n]

\* None for NaN, the float otherwise:  float(x) if x == x else None
NoneIfNaN(x) == IF FEq(x, x) THEN x ELSE PyNone

\* The outcome of analyze_hourly(df_hour, min_clicks, spike_ratio_threshold):
\* [exc, df, ret], df being the frame as the call leaves it
analyze_hourly(df_hour, min_clicks, spike_ratio_threshold) ==
    IF IsEmpty(df_hour) \/ HOUR \notin df_hour.cols THEN
        [exc |-> "", df |-> df_hour, ret |-> [insight |-> NO_HOURLY]]
    ELSE
        LET coerced == CoerceColumns(df_hour, HourlyNumeric) IN
        IF ~(AggColumns \subseteq coerced.cols) THEN
            [exc |-> "KeyError", df |-> coerced, ret |-> <<>>]
        ELSE
            LET grouped == Grouped(coerced)
                first_active_hour == FirstActiveHour(grouped)
                first_hour_clicks ==
                    SumClicks(SelectSeq(grouped, LAMBDA g : g.hour = first_active_hour))
                rest_clicks == ClicksOf(RestClicks(grouped, first_active_hour))
                rest_median == IF rest_clicks # <<>> THEN Median(rest_clicks) ELSE NaN
                spike_ratio ==
                    IF RatioGuard(rest_median)
                    THEN FDiv(Num(first_hour_clicks), rest_median)
                    ELSE NaN
                insight ==
                    [first_active_hour |-> first_active_hour,
                     first_hour_clicks |-> first_hour_clicks,
                     rest_median_clicks |-> NoneIfNaN(rest_median),
                     spike_ratio |-> NoneIfNaN(spike_ratio)]
                actions ==
                    IF SpikeGuard(spike_ratio, first_hour_clicks, min_clicks,
                                  spike_ratio_threshold)
                    THEN << [msg |-> ACTION_SPIKE,
                             fmt |-> <<first_active_hour, Tenths(spike_ratio)>>],
                            [msg |-> ACTION_FRAUD, fmt |-> <<>>] >>
                    ELSE <<>>
            IN [exc |-> "", df |-> coerced,
                ret |-> [hourly_table |-> grouped, insight |-> insight,
                         actions |-> actions]]

-----------------------------------------------------------------------------
(* analyze_search_terms, analyze_placements, prepare_campaign_summary *)

SEARCH_TERM == "segments.search_term"

CAMPAIGN_NAME == "campaign.name"

TARGET_URL == "detail_placement_view.group_placement_target_url"

DISPLAY_NAME == "detail_placement_view.display_name"

CTR == "metrics.ctr"

CONVERSIONS_VALUE == "metrics.conversions_value"

FindingsNumeric == <<CLICKS, IMPRESSIONS, CONVERSIONS, COST_MICROS>>

CampaignNumeric == <<IMPRESSIONS, CLICKS, CTR, CONVERSIONS, COST_MICROS, CONVERSIONS_VALUE>>

NO_SEARCH == "No search term data returned."

NO_PLACEMENT == "No placement data returned."

REASON_NEGATIVE == "High spend/clicks with zero conversions - consider adding as a negative keyword."

REASON_EXCLUDE == "High spend/clicks with zero conversions - consider excluding this placement."

HEAD_LIMIT == 25

SEARCH_MIN_CLICKS == 20

SEARCH_MIN_COST == 10

PLACEMENT_MIN_CLICKS == 15

PLACEMENT_MIN_COST == 8

\* row.get(key): None when the row has no such column
RowGet(row, key) == IF key \in DOMAIN row THEN row[key] ELSE PyNone

MutLoserMask(row, min_clicks, min_cost) ==
    /\ FGe(row[CLICKS], Num(min_clicks))
    /\ FEq(row[CONVERSIONS], Num(0))
    /\ FGt(row[COST], Num(min_cost))

\* the boolean mask of the losers:
\* (clicks >= min_clicks) & (conversions == 0) & (cost >= min_cost)
LoserMask(row, min_clicks, min_cost) ==
    /\ FGe(row[CLICKS], Num(min_clicks))
    /\ FEq(row[CONVERSIONS], Num(0))
    /\ FGe(row[COST], Num(min_cost))

MutCostBefore(rows, a, b, tie) ==
    LET x == rows[a][COST]
        y == rows[b][COST]
    IN IF FGt(y, x) THEN TRUE
       ELSE IF FGt(x, y) THEN FALSE
       ELSE IF IsNum(x) /\ ~IsNum(y) THEN TRUE
       ELSE IF IsNum(y) /\ ~IsNum(x) THEN FALSE
       ELSE IF tie = "kept" THEN a < b ELSE a > b

\* sort_values("cost", ascending=False): row a goes before row b.  NaN goes
\* last; the sort is not stable, so rows of equal cost come out in an order
\* the caller cannot rely on: in frame order (tie = "kept") or against it.
CostBefore(rows, a, b, tie) ==
    LET x == rows[a][COST]
        y == rows[b][COST]
    IN IF FGt(x, y) THEN TRUE
       ELSE IF FGt(y, x) THEN FALSE
       ELSE IF IsNum(x) /\ ~IsNum(y) THEN TRUE
       ELSE IF IsNum(y) /\ ~IsNum(x) THEN FALSE
       ELSE IF tie = "kept" THEN a < b ELSE a > b

RECURSIVE InsertByCost(_, _, _, _)
InsertByCost(rows, a, s, tie) ==
    IF s = <<>> THEN <<a>>
    ELSE IF CostBefore(rows, a, Head(s), tie) THEN <<a>> \o s
    ELSE <<Head(s)>> \o InsertByCost(rows, a, Tail(s), tie)

RECURSIVE SortByCost(_, _, _)
SortByCost(rows, idx, tie) ==
    IF idx = <<>> THEN <<>>
    ELSE InsertByCost(rows, Head(idx), SortByCost(rows, Tail(idx), tie), tie)

\* .head(n)
HeadN(s, n) == IF Len(s) <= n THEN s ELSE SubSeq(s, 1, n)

\* the index labels (positions in df, from 1) of
\* df[mask].copy().sort_values("cost", ascending=False).head(25)
Losers(t, min_clicks, min_cost, tie) ==
    LET all == [i \in 1..Len(t.rows) |-> i]
        masked == SelectSeq(all, LAMBDA i : LoserMask(t.rows[i], min_clicks, min_cost))
    IN HeadN(SortByCost(t.rows, masked, tie), HEAD_LIMIT)

\* The outcome of analyze_search_terms(df_st): [exc, df, losers, ret]
analyze_search_terms(df_st, tie) ==
    IF IsEmpty(df_st) \/ CLICKS \notin df_st.cols THEN
        [exc |-> "", df |-> df_st, losers |-> <<>>, ret |-> [insight |-> NO_SEARCH]]
    ELSE
        LET coerced == CoerceColumns(df_st, FindingsNumeric) IN
        IF COST_MICROS \notin coerced.cols THEN
            [exc |-> "KeyError", df |-> coerced, losers |-> <<>>, ret |-> <<>>]
        ELSE
            LET costed == AddCostColumn(coerced) IN
            IF CONVERSIONS \notin costed.cols THEN
                [exc |-> "KeyError", df |-> costed, losers |-> <<>>, ret |-> <<>>]
            ELSE
                LET ls == Losers(costed, SEARCH_MIN_CLICKS, SEARCH_MIN_COST, tie)
                    recs == [k \in 1..Len(ls) |->
                                LET row == costed.rows[ls[k]] IN
                                [search_term |-> RowGet(row, SEARCH_TERM),
                                 campaign |-> RowGet(row, CAMPAIGN_NAME),
                                 reason |-> REASON_NEGATIVE,
                                 est_cost |-> row[COST]]]
                IN [exc |-> "", df |-> costed, losers |-> ls,
                    ret |-> [negatives |-> recs]]

\* the placement identifier of a loser row
PlacementOf(row) == PyOr(RowGet(row, TARGET_URL), RowGet(row, DISPLAY_NAME))

\* The outcome of analyze_placements(df_pl): [exc, df, losers, ret]
analyze_placements(df_pl, tie) ==
    IF IsEmpty(df_pl) \/ CLICKS \notin df_pl.cols THEN
        [exc |-> "", df |-> df_pl, losers |-> <<>>, ret |-> [insight |-> NO_PLACEMENT]]
    ELSE
        LET coerced == CoerceColumns(df_pl, FindingsNumeric) IN
        IF COST_MICROS \notin coerced.cols THEN
            [exc |-> "KeyError", df |-> coerced, losers |-> <<>>, ret |-> <<>>]
        ELSE
            LET costed == AddCostColumn(coerced) IN
            IF CONVERSIONS \notin costed.cols THEN
                [exc |-> "KeyError", df |-> costed, losers |-> <<>>, ret |-> <<>>]
            ELSE
                LET ls == Losers(costed, PLACEMENT_MIN_CLICKS, PLACEMENT_MIN_COST, tie)
                    recs == [k \in 1..Len(ls) |->
                                LET row == costed.rows[ls[k]] IN
                                [placement |-> PlacementOf(row),
                                 campaign |-> RowGet(row, CAMPAIGN_NAME),
                                 reason |-> REASON_EXCLUDE,
                                 est_cost |-> row[COST]]]
                IN [exc |-> "", df |-> costed, losers |-> ls,
                    ret |-> [exclusions |-> recs]]

\* The outcome of prepare_campaign_summary(df_c): [exc, df, ret].  The frame
\* returned is a sorted copy; index holds the labels of its rows in df_c.
prepare_campaign_summary(df_c, tie) ==
    IF IsEmpty(df_c) THEN
        [exc |-> "", df |-> df_c, ret |-> df_c]
    ELSE
        LET coerced == CoerceColumns(df_c, CampaignNumeric) IN
        IF COST_MICROS \notin coerced.cols THEN
            [exc |-> "KeyError", df |-> coerced, ret |-> <<>>]
        ELSE
            LET costed == AddCostColumn(coerced)
                order == SortByCost(costed.rows, [i \in 1..Len(costed.rows) |-> i], tie)
            IN [exc |-> "", df |-> costed,
                ret |-> [cols |-> costed.cols,
                         rows |-> [k \in 1..Len(order) |-> costed.rows[order[k]]],
                         index |-> order]]

-----------------------------------------------------------------------------
(* flatten_message, df_from_rows *)

(* A value of a nested message is a node [k, v, m, items]: a scalar v           *)
(* (k = "leaf"), a nested mapping m (k = "dict") or a list of elements, given  *)
(* by their text forms items (k = "list").  A dict iterates in insertion      *)
(* order; order lists all keys, and a dict iterates over its own keys in that *)
(* order.                                                                     *)
Leaf(v) == [k |-> "leaf", v |-> v, m |-> <<>>, items |-> <<>>]

Dict(m) == [k |-> "dict", v |-> PyNone, m |-> m, items |-> <<>>]

List(items) == [k |-> "list", v |-> PyNone, m |-> <<>>, items |-> items]

\* ",".join(map(str, value))
RECURSIVE JoinComma(_)
JoinComma(items) ==
    IF items = <<>> THEN ""
    ELSE IF Len(items) = 1 THEN items[1]
    ELSE items[1] \o "," \o JoinComma(Tail(items))

MutNewKey(parent_key, key) == key

\* new_key = f"{parent_key}.{key}" if parent_key else key
NewKey(parent_key, key) == IF parent_key # "" THEN parent_key \o "." \o key ELSE key

\* The flat dict flatten_message(message, parent_key) returns; FlattenItems is
\* its loop over the items that remain, flat being the dict built so far.
RECURSIVE flatten_message(_, _, _), FlattenItems(_, _, _, _, _)
flatten_message(message, parent_key, order) ==
    FlattenItems(message, SelectSeq(order, LAMBDA k : k \in DOMAIN message),
                 parent_key, order, <<>>)

FlattenItems(message, keys, parent_key, order, flat) ==
    IF keys = <<>> THEN flat
    ELSE LET key == Head(keys)
             value == message[key]
             new_key == NewKey(parent_key, key)
             update ==
                 CASE value.k = "dict" -> flatten_message(value.m, new_key, order)
                   [] value.k = "list" -> new_key :> Str(JoinComma(value.items))
                   [] OTHER -> new_key :> value.v
         IN FlattenItems(message, Tail(keys), parent_key, order, update @@ flat)

-----------------------------------------------------------------------------
(* Inputs *)

\* all sequences over S of length at most n
SeqsUpTo(S, n) == UNION {[1..k -> S] : k \in 0..n}

HourlyCols == {HOUR, CLICKS, IMPRESSIONS, CONVERSIONS, COST_MICROS}

HourlyRow(h, c, i, v, m) ==
    (HOUR :> h) @@ (CLICKS :> c) @@ (IMPRESSIONS :> i) @@ (CONVERSIONS :> v)
        @@ (COST_MICROS :> m)

\* rows of an hourly report: hours 0..2 with no, little or much traffic, with a
\* malformed clicks field, and a row whose hour is malformed
HourlyRowSet ==
    UNION {{HourlyRow(Num(h), NumStr(0), NumStr(0), Num(0), NumStr(0)),
            HourlyRow(Num(h), NumStr(10), NumStr(200), Num(1), NumStr(3000000)),
            HourlyRow(Num(h), NumStr(100), NumStr(500), Num(0), NumStr(40000000)),
            HourlyRow(Num(h), Str("bad"), NumStr(50), Num(0), Str("bad"))}
           : h \in 0..2}
    \cup {HourlyRow(Str("bad"), NumStr(100), NumStr(500), Num(0), NumStr(40000000))}

MkTable(cols, rows) == [cols |-> cols, rows |-> rows]

\* the table without column c
DropColumn(t, c) ==
    [cols |-> t.cols \ {c},
     rows |-> [i \in 1..Len(t.rows) |-> [k \in t.cols \ {c} |-> t.rows[i][k]]]]

CompleteHourly == {MkTable(HourlyCols, rows) : rows \in SeqsUpTo(HourlyRowSet, MaxRows)}

\* one-row tables that lack a column
IncompleteHourly ==
    {DropColumn(MkTable(HourlyCols, <<r>>), c) : r \in HourlyRowSet, c \in HourlyCols}

\* one well-formed row per hour 0..MaxHour, every assignment of clicks
ProfileClicks == {0, 8, 10, 12, 100}

HourlyProfiles ==
    {MkTable(HourlyCols,
             [i \in 1..(MaxHour + 1) |->
                HourlyRow(Num(i - 1), NumStr(f[i - 1]), NumStr(10 * f[i - 1]),
                          Num(0), NumStr(1000000 * f[i - 1]))])
     : f \in [0..MaxHour -> ProfileClicks]}

HourlyTables == CompleteHourly \cup HourlyProfiles \cup IncompleteHourly \cup {EmptyFrame, BlankFrame}

SearchCols == {SEARCH_TERM, CAMPAIGN_NAME, CLICKS, IMPRESSIONS, CONVERSIONS, COST_MICROS}

SearchRow(term, camp, c, v, m) ==
    (SEARCH_TERM :> Str(term)) @@ (CAMPAIGN_NAME :> Str(camp)) @@ (CLICKS :> c)
        @@ (IMPRESSIONS :> NumStr(1000)) @@ (CONVERSIONS :> v) @@ (COST_MICROS :> m)

\* rows of a search-term report, on and around the three thresholds
SearchRowSet ==
    {SearchRow("shoes", "A", NumStr(25), Num(0), NumStr(12000000)),
     SearchRow("boots", "A", NumStr(25), Num(1), NumStr(12000000)),
     SearchRow("hats", "B", NumStr(25), Num(0), NumStr(5000000)),
     SearchRow("caps", "B", NumStr(20), Num(0), NumStr(10000000)),
     SearchRow("ties", "A", NumStr(19), Num(0), NumStr(50000000)),
     SearchRow("belt", "B", NumStr(20), Num(0), NumStr(9999999)),
     SearchRow("sock", "A", NumStr(30), Num(0), NumStr(50000000)),
     SearchRow("scarf", "B", NumStr(40), Num(0), NumStr(30000000)),
     SearchRow("wig", "A", NumStr(25), NaN, NumStr(12000000)),
     SearchRow("cape", "B", NumStr(25), Num(0), Str("bad"))}

\* a report of n rows whose costs are base + (stride * i) % modulus dollars
BulkCost(i, base, stride, modulus) == (base + ((stride * i) % modulus)) * MICROS

BulkSizes == (HEAD_LIMIT - 1)..MaxBulk

BulkShapes == {<<10, 1, 4>>, <<10, 7, 30>>, <<9, 1, 4>>, <<9, 7, 30>>}

BulkSearch ==
    {MkTable(SearchCols,
             [i \in 1..n |->
                SearchRow("term", "A", NumStr(20 + (i % 3)), Num(0),
                          NumStr(BulkCost(i, sh[1], sh[2], sh[3])))])
     : n \in BulkSizes, sh \in BulkShapes}

CompleteSearch == {MkTable(SearchCols, rows) : rows \in SeqsUpTo(SearchRowSet, MaxRows)}

IncompleteSearch ==
    {DropColumn(MkTable(SearchCols, <<r>>), c) : r \in SearchRowSet, c \in SearchCols}

SearchTables == CompleteSearch \cup BulkSearch \cup IncompleteSearch \cup {EmptyFrame, BlankFrame}

\* pd.DataFrame(dicts): the columns are the union of the keys, and a row
\* without a key holds NaN in that column
FrameOf(dicts) ==
    LET cols == UNION {DOMAIN dicts[i] : i \in 1..Len(dicts)}
    IN [cols |-> cols,
        rows |-> [i \in 1..Len(dicts) |->
                    [c \in cols |-> IF c \in DOMAIN dicts[i] THEN dicts[i][c] ELSE NaN]]]

\* The frame df_from_rows(rows) builds, rows given as the nested dicts
\* MessageToDict makes of them; dicts holds the flattened rows
df_from_rows(rows, order) ==
    IF rows = <<>> THEN [dicts |-> <<>>, frame |-> EmptyFrame]
    ELSE LET dicts == [i \in 1..Len(rows) |-> flatten_message(rows[i], "", order)]
         IN [dicts |-> dicts, frame |-> FrameOf(dicts)]

PlacementCommon(name, c, v, m) ==
    (DISPLAY_NAME :> Str(name)) @@ (CAMPAIGN_NAME :> Str("A")) @@ (CLICKS :> c)
        @@ (IMPRESSIONS :> NumStr(1000)) @@ (CONVERSIONS :> v) @@ (COST_MICROS :> m)

WithUrl(url, row) == (TARGET_URL :> Str(url)) @@ row

\* flattened rows of a placement report: with a target URL, with an empty one,
\* and without the field
PlacementDicts ==
    {WithUrl("u1.example", PlacementCommon("d1", NumStr(15), Num(0), NumStr(8000000))),
     PlacementCommon("d2", NumStr(20), Num(0), NumStr(9000000)),
     WithUrl("", PlacementCommon("d3", NumStr(20), Num(0), NumStr(20000000))),
     WithUrl("u4.example", PlacementCommon("d4", NumStr(14), Num(0), NumStr(20000000))),
     WithUrl("u5.example", PlacementCommon("d5", NumStr(20), Num(1), NumStr(20000000))),
     WithUrl("u6.example", PlacementCommon("d6", NumStr(20), Num(0), NumStr(7999999)))}

PlacementCols == {TARGET_URL, DISPLAY_NAME, CAMPAIGN_NAME, CLICKS, IMPRESSIONS, CONVERSIONS, COST_MICROS}

CompletePlacements == {FrameOf(dicts) : dicts \in SeqsUpTo(PlacementDicts, MaxRows)}

BulkPlacements ==
    {MkTable(PlacementCols,
             [i \in 1..n |->
                WithUrl("u.example",
                        PlacementCommon("d", NumStr(15 + (i % 3)), Num(0),
                                        NumStr(BulkCost(i, sh[1] - 2, sh[2], sh[3]))))])
     : n \in BulkSizes, sh \in BulkShapes}

IncompletePlacements ==
    {DropColumn(FrameOf(<<r>>), c) : r \in PlacementDicts, c \in {CLICKS, CONVERSIONS, COST_MICROS}}

PlacementTables ==
    CompletePlacements \cup BulkPlacements \cup IncompletePlacements
        \cup {MkTable(PlacementCols, <<>>), BlankFrame}

CampaignCols == {CAMPAIGN_NAME, IMPRESSIONS, CLICKS, CTR, CONVERSIONS, COST_MICROS, CONVERSIONS_VALUE}

CampaignRow(name, m) ==
    (CAMPAIGN_NAME :> Str(name)) @@ (IMPRESSIONS :> NumStr(1000)) @@ (CLICKS :> NumStr(40))
        @@ (CTR :> Frac(4, 100)) @@ (CONVERSIONS :> Num(2)) @@ (COST_MICROS :> m)
        @@ (CONVERSIONS_VALUE :> Num(30))

CampaignRowSet ==
    {CampaignRow("A", NumStr(50000000)),
     CampaignRow("B", NumStr(5000000)),
     CampaignRow("C", NumStr(30000000)),
     CampaignRow("D", NumStr(30000000)),
     CampaignRow("E", Str("bad"))}

CompleteCampaigns == {MkTable(CampaignCols, rows) : rows \in SeqsUpTo(CampaignRowSet, MaxRows)}

IncompleteCampaigns ==
    {DropColumn(MkTable(CampaignCols, <<r>>), c) : r \in CampaignRowSet, c \in CampaignCols}

CampaignTables == CompleteCampaigns \cup IncompleteCampaigns \cup {EmptyFrame, BlankFrame}

\* keys of a message: plain names, a name with a dot, the empty name
MessageKeys == {"", "a", "b", "a.b"}

InnerKeys == {"", "b"}

KeyOrder == <<"", "a", "a.b", "b">>

KeyOrders == {KeyOrder, <<"b", "a.b", "a", "">>}

\* the mappings over at most MaxKeys of the keys K, with values in V
MappingsOver(K, V) ==
    UNION {[D -> V] : D \in {E \in SUBSET K : Cardinality(E) <= MaxKeys}}

\* nested mappings of depth at most n below the top level
RECURSIVE InnerMessages(_)
InnerMessages(n) ==
    IF n = 0 THEN {}
    ELSE MappingsOver(InnerKeys,
                      {Leaf(Num(2))} \cup {Dict(m) : m \in InnerMessages(n - 1)})

\* messages of depth at most MaxNest
Messages ==
    MappingsOver(MessageKeys,
                 {Leaf(Num(1)), List(<<"x", "y">>)}
                     \cup {Dict(m) : m \in InnerMessages(MaxNest - 1)})

RowLists == {<<>>} \cup {<<x>> : x \in Messages}

\* values handed to micros_to_currency
ScalarInputs ==
    {Num(6000000), Num(0), Num(1), Frac(5, 2), NumStr(1500000), NumStr(0),
     Str("bad"), Str(""), PyNone, NaN, PyList, BigInt}

TieBreaks == {"kept", "reversed"}

MinClicksSet == {0, 50}

SpikeThresholdSet == {Frac(0, 10), Frac(25, 10), Frac(100, 10)}

NoArgs == [min_clicks |-> 0, spike_ratio_threshold |-> Num(0)]

NoResult == <<>>

-----------------------------------------------------------------------------
(* The calls *)

\* analyze_account is not running
AccountIdle ==
    /\ apc = "idle"
    /\ astep = 0
    /\ queries = <<>>
    /\ analyzed = <<>>
    /\ parts = <<>>
    /\ aresult = NoResult
    /\ aerror = ""
    /\ rpc = "idle"
    /\ view = <<>>
    /\ rraised = ""

\* no window
GuiIdle ==
    /\ run_btn = "none"
    /\ credentials = "none"
    /\ oauth = "idle"
    /\ signins = 0
    /\ workers = <<>>
    /\ events = <<>>
    /\ reenabled = <<>>
    /\ laststatus = <<>>

\* config_manager is not in use
SettingsIdle ==
    /\ file = <<>>
    /\ written = <<>>
    /\ heap = <<>>
    /\ ret = ""
    /\ lraised = ""
    /\ touched = FALSE

Init ==
    /\ AccountIdle
    /\ GuiIdle
    /\ SettingsIdle
    /\ pc = "ready"
    /\ \/ kind = "hourly" /\ arg \in HourlyTables
       \/ kind = "search_terms" /\ arg \in SearchTables
       \/ kind = "placements" /\ arg \in PlacementTables
       \/ kind = "campaigns" /\ arg \in CampaignTables
       \/ kind = "micros" /\ arg \in ScalarInputs
       \/ kind = "rows" /\ arg \in RowLists
    /\ df = arg
    /\ args = NoArgs
    /\ losers = <<>>
    /\ result = NoResult
    /\ raised = ""

Return(out) ==
    /\ pc' = "done"
    /\ df' = out.df
    /\ raised' = out.exc
    /\ result' = out.ret
    /\ UNCHANGED <<kind, arg>>

AnalyzeHourly ==
    /\ pc = "ready"
    /\ kind = "hourly"
    /\ \E mc \in MinClicksSet, thr \in SpikeThresholdSet :
        /\ args' = [min_clicks |-> mc, spike_ratio_threshold |-> thr]
        /\ Return(analyze_hourly(df, mc, thr))
    /\ UNCHANGED <<losers, acct_vars, gui_vars, file_vars>>

AnalyzeSearchTerms ==
    /\ pc = "ready"
    /\ kind = "search_terms"
    /\ \E tie \in TieBreaks :
        LET out == analyze_search_terms(df, tie) IN
        /\ Return(out)
        /\ losers' = out.losers
    /\ UNCHANGED <<args, acct_vars, gui_vars, file_vars>>

AnalyzePlacements ==
    /\ pc = "ready"
    /\ kind = "placements"
    /\ \E tie \in TieBreaks :
        LET out == analyze_placements(df, tie) IN
        /\ Return(out)
        /\ losers' = out.losers
    /\ UNCHANGED <<args, acct_vars, gui_vars, file_vars>>

PrepareCampaignSummary ==
    /\ pc = "ready"
    /\ kind = "campaigns"
    /\ \E tie \in TieBreaks : Return(prepare_campaign_summary(df, tie))
    /\ UNCHANGED <<args, losers, acct_vars, gui_vars, file_vars>>

MicrosToCurrency ==
    /\ pc = "ready"
    /\ kind = "micros"
    /\ LET out == micros_to_currency(arg) IN
        /\ pc' = "done"
        /\ raised' = out.exc
        /\ result' = IF out.exc = "" THEN out.val ELSE NoResult
    /\ UNCHANGED <<kind, arg, args, df, losers, acct_vars, gui_vars, file_vars>>

DfFromRows ==
    /\ pc = "ready"
    /\ kind = "rows"
    /\ \E order \in KeyOrders :
        LET out == df_from_rows(arg, order) IN
        /\ pc' = "done"
        /\ result' = out.dicts
        /\ df' = out.frame
    /\ UNCHANGED <<kind, arg, args, losers, raised, acct_vars, gui_vars, file_vars>>

Next ==
    \/ DfFromRows
    \/ AnalyzeHourly
    \/ AnalyzeSearchTerms
    \/ AnalyzePlacements
    \/ PrepareCampaignSummary
    \/ MicrosToCurrency

Spec == Init /\ [][Next]_vars

-----------------------------------------------------------------------------
(* analyze_account *)

(* One run of analyze_account.  apc is the position of the run and astep the  *)
(* report it is at (1..4); df is the frame df_from_rows made of the rows of   *)
(* the last query and args holds min_first_hour_clicks and                    *)
(* spike_ratio_threshold.  queries and analyzed are the calls made so far:    *)
(* a query with the error the service raised ("" if it returned rows) and    *)
(* the frame of its rows, an analyzer with the frame it was given.  aerror is the exception that left   *)
(* analyze_account, aresult the value it returned.                            *)

\* the reports in the order analyze_account asks for them
Reports == <<"hourly", "search_terms", "placements", "campaigns">>

\* what the query service raises
ServiceErrors == {"GoogleAdsException", "TransportError"}

CampaignRowBadConversions ==
    [CampaignRow("F", NumStr(20000000)) EXCEPT ![CONVERSIONS] = Str("n/a")]

\* the frames of the rows a query can return: none, well-formed rows,
\* rows with a malformed field, rows without one of the metrics
HourlyAnswers ==
    {EmptyFrame,
     MkTable(HourlyCols,
             <<HourlyRow(Num(0), NumStr(100), NumStr(500), Num(0), NumStr(40000000)),
               HourlyRow(Num(1), NumStr(10), NumStr(200), Num(1), NumStr(3000000)),
               HourlyRow(Num(2), Str("bad"), NumStr(50), Num(0), Str("bad"))>>),
     DropColumn(MkTable(HourlyCols,
                        <<HourlyRow(Num(0), NumStr(10), NumStr(200), Num(1), NumStr(3000000))>>),
                COST_MICROS)}

SearchAnswers ==
    {EmptyFrame,
     MkTable(SearchCols,
             <<SearchRow("shoes", "A", NumStr(25), Num(0), NumStr(12000000)),
               SearchRow("cape", "B", NumStr(25), Num(0), Str("bad"))>>),
     DropColumn(MkTable(SearchCols,
                        <<SearchRow("shoes", "A", NumStr(25), Num(0), NumStr(12000000))>>),
                CONVERSIONS)}

PlacementAnswers ==
    {EmptyFrame,
     FrameOf(<<WithUrl("u1.example", PlacementCommon("d1", NumStr(15), Num(0), NumStr(8000000))),
               PlacementCommon("d2", NumStr(20), Num(0), NumStr(9000000))>>)}

CampaignAnswers ==
    {EmptyFrame,
     MkTable(CampaignCols, <<CampaignRow("B", NumStr(5000000)), CampaignRow("A", NumStr(50000000))>>),
     MkTable(CampaignCols, <<CampaignRow("A", NumStr(50000000)), CampaignRow("E", Str("bad"))>>),
     MkTable(CampaignCols, <<CampaignRowBadConversions>>)}

Answers(report) ==
    CASE report = "hourly" -> HourlyAnswers
      [] report = "search_terms" -> SearchAnswers
      [] report = "placements" -> PlacementAnswers
      [] report = "campaigns" -> CampaignAnswers

\* the analyzer of a report, on the frame of that report
Analyzer(report, frame, kwargs, tie) ==
    CASE report = "hourly" ->
            analyze_hourly(frame, kwargs.min_clicks, kwargs.spike_ratio_threshold)
      [] report = "search_terms" -> analyze_search_terms(frame, tie)
      [] report = "placements" -> analyze_placements(frame, tie)
      [] report = "campaigns" -> prepare_campaign_summary(frame, tie)

MutUnwind(position) == IF position = "query" THEN "analyze" ELSE "query"

\* where the run is after an exception raised at position: analyze_account
\* has no handler, the exception leaves it
Unwind(position) == "raised"

InitAccount ==
    /\ kind = "account"
    /\ pc = "idle"
    /\ arg = NoArgs
    /\ args \in [min_clicks : MinClicksSet, spike_ratio_threshold : SpikeThresholdSet]
    /\ df = EmptyFrame
    /\ losers = <<>>
    /\ result = NoResult
    /\ raised = ""
    /\ apc = "query"
    /\ astep = 1
    /\ queries = <<>>
    /\ analyzed = <<>>
    /\ parts = <<>>
    /\ aresult = NoResult
    /\ aerror = ""
    /\ rpc = "idle"
    /\ view = <<>>
    /\ rraised = ""
    /\ GuiIdle
    /\ SettingsIdle

\* rows_x = run_query(...); df_x = df_from_rows(rows_x)
RunQuery ==
    /\ apc = "query"
    /\ \/ \E frame \in Answers(Reports[astep]) :
            /\ queries' = Append(queries, [report |-> Reports[astep], raised |-> "",
                                        frame |-> frame])
            /\ df' = frame
            /\ apc' = "analyze"
            /\ UNCHANGED aerror
       \/ \E e \in ServiceErrors :
            /\ queries' = Append(queries, [report |-> Reports[astep], raised |-> e,
                                        frame |-> EmptyFrame])
            /\ aerror' = e
            /\ apc' = Unwind("query")
            /\ UNCHANGED df
    /\ UNCHANGED <<kind, arg, args, losers, result, raised, pc>>
    /\ UNCHANGED <<astep, analyzed, parts, aresult, rpc, view, rraised>>
    /\ UNCHANGED <<gui_vars, file_vars>>

\* x = analyze_x(df_x)
RunAnalyzer ==
    /\ apc = "analyze"
    /\ \E tie \in TieBreaks :
        LET out == Analyzer(Reports[astep], df, args, tie) IN
        /\ analyzed' = Append(analyzed, [report |-> Reports[astep], frame |-> df])
        /\ df' = out.df
        /\ IF out.exc = ""
           THEN /\ parts' = Append(parts, out.ret)
                /\ IF astep = Len(Reports)
                   THEN apc' = "return" /\ UNCHANGED astep
                   ELSE apc' = "query" /\ astep' = astep + 1
                /\ UNCHANGED aerror
           ELSE /\ aerror' = out.exc
                /\ apc' = Unwind("analyze")
                /\ UNCHANGED <<parts, astep>>
    /\ UNCHANGED <<kind, arg, args, losers, result, raised, pc>>
    /\ UNCHANGED <<queries, aresult, rpc, view, rraised>>
    /\ UNCHANGED <<gui_vars, file_vars>>

\* return {"hourly": ..., "search_terms": ..., "placements": ..., "campaigns": ...}
ReturnResult ==
    /\ apc = "return"
    /\ aresult' = [hourly |-> parts[1], search_terms |-> parts[2],
                   placements |-> parts[3], campaigns |-> parts[4]]
    /\ apc' = "returned"
    /\ UNCHANGED call_vars
    /\ UNCHANGED <<astep, queries, analyzed, parts, aerror, rpc, view, rraised>>
    /\ UNCHANGED <<gui_vars, file_vars>>

-----------------------------------------------------------------------------
(* _render_results *)

\* the text of the number x under a format such as "%.2f"
Formatted(x, fmt) == [t |-> "str", n |-> x.n, d |-> x.d, s |-> fmt]

\* _format_percentage(value)
format_percentage(value) ==
    IF value.t = "none" \/ IsNaN(value) THEN Str("-")
    ELSE Formatted(Frac(value.n * 100, value.d), "%.1f%%")

\* _format_currency(value)
format_currency(value) ==
    IF value.t = "none" \/ IsNaN(value) THEN Str("0.00")
    ELSE Formatted(value, "%.2f")

\* f"{x:.2f}" of a float
Fixed2(x) == IF IsNaN(x) THEN Str("nan") ELSE Formatted(x, "%.2f")

\* int(x or 0) raises ValueError: NaN is truthy and has no integer value
IntRaises(x) == IsNaN(PyOr(x, Num(0)))

\* int(x or 0)
IntOrZero(x) == PyInt(PyOr(x, Num(0)))

\* the rows of the hourly tree
HourlyTree(hourly_table) ==
    [i \in 1..Len(hourly_table) |->
        LET row == hourly_table[i] IN
        [Hour |-> row.hour,
         Clicks |-> IntOrZero(row.clicks),
         Impressions |-> IntOrZero(row.impressions),
         Conversions |-> IntOrZero(row.conversions),
         CTR |-> format_percentage(row.ctr),
         CVR |-> format_percentage(row.cvr),
         Cost |-> format_currency(row.cost)]]

\* the rows of the search-term tree and of the placement tree
SearchTree(findings) ==
    IF "negatives" \notin DOMAIN findings THEN <<>>
    ELSE [i \in 1..Len(findings.negatives) |->
            LET item == findings.negatives[i] IN
            [Term |-> item.search_term, Campaign |-> item.campaign,
             Reason |-> item.reason, EstCost |-> Fixed2(item.est_cost)]]

PlacementTree(findings) ==
    IF "exclusions" \notin DOMAIN findings THEN <<>>
    ELSE [i \in 1..Len(findings.exclusions) |->
            LET item == findings.exclusions[i] IN
            [Placement |-> item.placement, Campaign |-> item.campaign,
             Reason |-> item.reason, EstCost |-> Fixed2(item.est_cost)]]

\* campaigns.head(25)
TopRows(campaigns) == HeadN(campaigns.rows, HEAD_LIMIT)

\* a row of the campaign tree cannot be built
CampaignRowRaises(row) ==
    \/ IntRaises(RowGet(row, CONVERSIONS))
    \/ IntRaises(RowGet(row, CLICKS))
    \/ IntRaises(RowGet(row, IMPRESSIONS))

CampaignTree(campaigns) ==
    IF IsEmpty(campaigns) THEN <<>>
    ELSE [i \in 1..Len(TopRows(campaigns)) |->
            LET row == TopRows(campaigns)[i] IN
            [Name |-> RowGet(row, CAMPAIGN_NAME),
             Cost |-> format_currency(RowGet(row, COST)),
             Conversions |-> IntOrZero(RowGet(row, CONVERSIONS)),
             CTR |-> format_percentage(RowGet(row, CTR)),
             Clicks |-> IntOrZero(RowGet(row, CLICKS)),
             Impressions |-> IntOrZero(RowGet(row, IMPRESSIONS))]]

\* The outcome of _render_results(result): [exc, view], view holding the
\* widgets the call has written.  The 'no data' result of analyze_hourly has a
\* string under "insight" and no "hourly_table"; insight.get fails on it.
render_results(res) ==
    IF "hourly_table" \notin DOMAIN res.hourly THEN
        [exc |-> "AttributeError", view |-> <<>>]
    ELSE
        LET written_first ==
                [insight |-> res.hourly.insight,
                 hourly |-> HourlyTree(res.hourly.hourly_table),
                 actions |-> res.hourly.actions,
                 search |-> SearchTree(res.search_terms),
                 placements |-> PlacementTree(res.placements)]
        IN IF /\ ~IsEmpty(res.campaigns)
              /\ \E i \in 1..Len(TopRows(res.campaigns)) :
                    CampaignRowRaises(TopRows(res.campaigns)[i])
           THEN [exc |-> "ValueError", view |-> written_first]
           ELSE [exc |-> "",
                 view |-> [insight |-> written_first.insight,
                           hourly |-> written_first.hourly,
                           actions |-> written_first.actions,
                           search |-> written_first.search,
                           placements |-> written_first.placements,
                           campaigns |-> CampaignTree(res.campaigns)]]

\* the Tk loop runs the callback that presents the result
RenderResults ==
    /\ apc = "returned"
    /\ rpc = "idle"
    /\ LET out == render_results(aresult) IN
        /\ rpc' = "done"
        /\ view' = out.view
        /\ rraised' = out.exc
    /\ UNCHANGED call_vars
    /\ UNCHANGED <<apc, astep, queries, analyzed, parts, aresult, aerror>>
    /\ UNCHANGED <<gui_vars, file_vars>>

NextAccount ==
    \/ RunQuery
    \/ RunAnalyzer
    \/ ReturnResult
    \/ RenderResults

SpecAccount == InitAccount /\ [][NextAccount]_vars

-----------------------------------------------------------------------------
(* The window (src/gui_app.py): threads and the Tk event queue *)

(* run_btn is the state of the Run Analysis button.  credentials is "none",   *)
(* "valid" or "expired" (an expired token that can be refreshed).             *)
(* workers[i] is the thread of the i-th analysis: its position pc ("unborn"   *)
(* before start_analysis creates it, "done" once _analysis has returned) and  *)
(* its outcome.  oauth is the position of the sign-in thread.  events is the  *)
(* queue of the callbacks handed to self.after(0, ...), which the Tk loop     *)
(* runs in order, one at a time; a callback is [op, text, run], run being     *)
(* the analysis whose thread scheduled it (0 for none).  Of the status line   *)
(* the model keeps laststatus[i], the last text a callback of analysis i has  *)
(* set; the callbacks that only write to the log, fill the result widgets,   *)
(* open the error dialog or                                                  *)
(* set the status on behalf of no analysis change nothing of this state and   *)
(* are left out.  reenabled[i] tells that the callback of the finally clause  *)
(* of analysis i has run.                                                     *)

Runs == 1..MaxRuns

STATUS_RUNNING == "Running analysis"

STATUS_REFRESHED == "Credentials refreshed."

STATUS_READY == "Analysis ready."

STATUS_FAILED == "Analysis failed."

Callback(op, text, run) == [op |-> op, text |-> text, run |-> run]

\* _refresh_credentials, when creds.refresh succeeds and when it raises
RefreshCallbacks(run, refreshed) ==
    IF ~refreshed THEN <<>>
    ELSE IF run = 0 THEN <<Callback("enable", "refresh", run)>>
    ELSE <<Callback("status", STATUS_REFRESHED, run), Callback("enable", "refresh", run)>>

\* the body of the try of _analysis after analyze_account has returned
SuccessCallbacks(run) == <<Callback("status", STATUS_READY, run)>>

\* the except clause of _analysis
FailureCallbacks(run) == <<Callback("status", STATUS_FAILED, run)>>

MutFinallyCallbacks(run, outcome) ==
    IF outcome = "ok" THEN <<Callback("enable", "finally", run)>> ELSE <<>>

\* the finally clause of _analysis
FinallyCallbacks(run, outcome) == <<Callback("enable", "finally", run)>>

\* the window after __init__: no usable token file; a valid cached token; an
\* expired one that _load_cached_credentials has refreshed
InitGui ==
    /\ kind = "window"
    /\ pc = "idle"
    /\ arg = NoArgs
    /\ args = NoArgs
    /\ df = EmptyFrame
    /\ losers = <<>>
    /\ result = NoResult
    /\ raised = ""
    /\ AccountIdle
    /\ SettingsIdle
    /\ oauth = "idle"
    /\ signins = 0
    /\ workers = [i \in Runs |-> [pc |-> "unborn", outcome |-> ""]]
    /\ reenabled = [i \in Runs |-> FALSE]
    /\ laststatus = [i \in Runs |-> ""]
    /\ \/ /\ credentials = "none"
          /\ run_btn = "disabled"
          /\ events = <<>>
       \/ /\ credentials = "valid"
          /\ run_btn = "normal"
          /\ events = <<>>
       \/ /\ credentials = "valid"
          /\ run_btn = "disabled"
          /\ events = RefreshCallbacks(0, TRUE)

\* the access token reaches its expiry time
Expire ==
    /\ credentials = "valid"
    /\ credentials' = "expired"
    /\ UNCHANGED <<run_btn, oauth, signins, workers, events, reenabled, laststatus>>
    /\ UNCHANGED <<call_vars, acct_vars, file_vars>>

\* the Sign in button: start_oauth starts the thread _oauth_flow
ClickSignIn ==
    /\ oauth = "idle"
    /\ signins < MaxSignIns
    /\ signins' = signins + 1
    /\ oauth' = "flow"
    /\ UNCHANGED <<run_btn, credentials, workers, events, reenabled, laststatus>>
    /\ UNCHANGED <<call_vars, acct_vars, file_vars>>

\* _oauth_flow ends: with credentials, or with an exception
OAuthFlow ==
    /\ oauth = "flow"
    /\ \/ /\ credentials' = "valid"
          /\ events' = Append(events, Callback("enable", "oauth", 0))
       \/ UNCHANGED <<credentials, events>>
    /\ oauth' = "idle"
    /\ UNCHANGED <<run_btn, signins, workers, reenabled, laststatus>>
    /\ UNCHANGED <<call_vars, acct_vars, file_vars>>

\* the Run Analysis button: start_analysis, with credentials and the fields
\* filled in; a disabled button takes no click
ClickRun ==
    /\ run_btn = "normal"
    /\ credentials # "none"
    /\ \E i \in Runs :
        /\ workers[i].pc = "unborn"
        /\ \A j \in Runs : j < i => workers[j].pc # "unborn"
        /\ workers' = [workers EXCEPT ![i].pc = "build"]
        /\ laststatus' = [laststatus EXCEPT ![i] = STATUS_RUNNING]
    /\ run_btn' = "disabled"
    /\ UNCHANGED <<credentials, oauth, signins, events, reenabled>>
    /\ UNCHANGED <<call_vars, acct_vars, file_vars>>

\* thread i: client = self._build_client() and the dates; an expired token
\* is refreshed first.  If the call raises, the except and finally clauses
\* follow and the thread ends.
BuildClient(i) ==
    /\ workers[i].pc = "build"
    /\ \E refreshed \in BOOLEAN, built \in BOOLEAN :
        LET refresh == IF credentials = "expired"
                       THEN RefreshCallbacks(i, refreshed)
                       ELSE <<>>
        IN
        /\ credentials' = IF credentials = "expired" /\ refreshed
                          THEN "valid" ELSE credentials
        /\ IF built
           THEN /\ events' = events \o refresh
                /\ workers' = [workers EXCEPT ![i].pc = "account"]
           ELSE /\ events' = events \o refresh \o FailureCallbacks(i)
                                \o FinallyCallbacks(i, "failed")
                /\ workers' = [workers EXCEPT ![i].pc = "done",
                                              ![i].outcome = "failed"]
    /\ UNCHANGED <<run_btn, oauth, signins, reenabled, laststatus>>
    /\ UNCHANGED <<call_vars, acct_vars, file_vars>>

\* thread i: result = analyze_account(...), which returns or raises at one of
\* its queries or analyzers; then the callbacks of the try body or of the
\* except clause, which takes every Exception alike, and the finally clause,
\* after which _analysis returns
AnalyzeAccount(i) ==
    /\ workers[i].pc = "account"
    /\ \/ /\ events' = events \o SuccessCallbacks(i) \o FinallyCallbacks(i, "ok")
          /\ workers' = [workers EXCEPT ![i].pc = "done", ![i].outcome = "ok"]
       \/ /\ events' = events \o FailureCallbacks(i) \o FinallyCallbacks(i, "failed")
          /\ workers' = [workers EXCEPT ![i].pc = "done", ![i].outcome = "failed"]
    /\ UNCHANGED <<run_btn, credentials, oauth, signins, reenabled, laststatus>>
    /\ UNCHANGED <<call_vars, acct_vars, file_vars>>

\* the Tk loop runs the first callback of the queue; an exception of a
\* callback is reported and the loop goes on
TkProcess ==
    /\ events # <<>>
    /\ LET e == Head(events) IN
        /\ events' = Tail(events)
        /\ run_btn' = IF e.op = "enable" THEN "normal" ELSE run_btn
        /\ laststatus' = IF e.op = "status"
                         THEN [laststatus EXCEPT ![e.run] = e.text]
                         ELSE laststatus
        /\ reenabled' = IF e.op = "enable" /\ e.text = "finally"
                        THEN [reenabled EXCEPT ![e.run] = TRUE]
                        ELSE reenabled
    /\ UNCHANGED <<credentials, oauth, signins, workers>>
    /\ UNCHANGED <<call_vars, acct_vars, file_vars>>

NextGui ==
    \/ Expire
    \/ ClickSignIn
    \/ OAuthFlow
    \/ ClickRun
    \/ \E i \in Runs : BuildClient(i)
    \/ \E i \in Runs : AnalyzeAccount(i)
    \/ TkProcess

\* threads run on, and the Tk loop keeps running the callbacks of its queue
SpecGui ==
    /\ InitGui
    /\ [][NextGui]_vars
    /\ WF_vars(TkProcess)
    /\ WF_vars(OAuthFlow)
    /\ \A i \in Runs : WF_vars(BuildClient(i))
    /\ \A i \in Runs : WF_vars(AnalyzeAccount(i))

-----------------------------------------------------------------------------
(* The settings file (src/config_manager.py) *)

(* A dict is a function from keys to scalars; an int is the scalar of type    *)
(* "int".  heap holds the dict objects by name: DEFAULT_SETTINGS, the module  *)
(* global, and fresh, the object the last load_settings built.  ret is the    *)
(* name of the object load_settings returned ("" before a call), lraised      *)
(* the exception that left it, touched tells that the caller has changed      *)
(* the returned object since.  file is the state of settings.json: absent,    *)
(* unreadable (read_text raises), or text; written is the dict a              *)
(* save_settings wrote it from, if one did.                                   *)
(* A JSON text is a document: ill-formed ("garbage"), a literal that is not   *)
(* an object (string, int, real, null, array), or an object, the sequence of  *)
(* its members [key, value] in the order of the text.                         *)

PyInteger(n) == [t |-> "int", n |-> n, d |-> 1, s |-> ""]

\* the module global (the developer token of line 14 abbreviated)
DEFAULT_SETTINGS ==
    [client_secret_path |-> Str("client_secret.json"),
     developer_token |-> Str("dz5h"),
     login_customer_id |-> Str(""),
     customer_id |-> Str("488-455-0863"),
     lookback_days |-> PyInteger(7),
     min_first_hour_clicks |-> PyInteger(50),
     spike_ratio |-> Frac(25, 10)]

JsonLiteral(j, x) == [j |-> j, s |-> x.s, n |-> x.n, d |-> x.d]

\* json.dumps of a str, an int or a float
JsonDump(value) ==
    CASE value.t = "str" -> JsonLiteral("string", value)
      [] value.t = "int" -> JsonLiteral("int", value)
      [] value.t = "num" -> JsonLiteral("real", value)

\* json.loads of a literal
JsonLoad(lit) ==
    CASE lit.j = "string" -> Str(lit.s)
      [] lit.j = "int" -> PyInteger(lit.n)
      [] lit.j = "real" -> Frac(lit.n, lit.d)
      [] lit.j = "null" -> PyNone
      [] lit.j = "array" -> PyList

\* the order in which a dict of settings holds its keys
SettingsOrder ==
    <<"client_secret_path", "developer_token", "login_customer_id", "customer_id",
      "lookback_days", "min_first_hour_clicks", "spike_ratio", "theme">>

\* json.dumps(data, indent=2) of a dict: its items in order
DumpDict(data) ==
    LET keys == SelectSeq(SettingsOrder, LAMBDA k : k \in DOMAIN data)
    IN [j |-> "object",
        members |-> [i \in 1..Len(keys) |-> [key |-> keys[i], value |-> JsonDump(data[keys[i]])]]]

\* json.loads of the members of an object: a later member replaces an earlier
\* one of the same key
RECURSIVE LoadMembers(_)
LoadMembers(members) ==
    IF members = <<>> THEN <<>>
    ELSE LET last == members[Len(members)]
         IN (last.key :> JsonLoad(last.value))
                @@ LoadMembers(SubSeq(members, 1, Len(members) - 1))

MutDictCopy(name) == name

\* dict(x) and {**x, **y} build a new object
DictCopy(name) == "fresh"

\* return dict(DEFAULT_SETTINGS)
ReturnDefaults(h) ==
    LET r == DictCopy("DEFAULT_SETTINGS")
    IN [exc |-> "", ref |-> r, heap |-> [h EXCEPT ![r] = h["DEFAULT_SETTINGS"]]]

\* The outcome of load_settings(): [exc, ref, heap]
load_settings(f, h) ==
    IF f.state = "absent" THEN ReturnDefaults(h)
    ELSE IF f.state = "unreadable" THEN ReturnDefaults(h)
    ELSE IF f.doc.j = "garbage" THEN ReturnDefaults(h)
    ELSE IF f.doc.j # "object" THEN ReturnDefaults(h)
    ELSE LET r == DictCopy("DEFAULT_SETTINGS")
         IN [exc |-> "", ref |-> r,
             heap |-> [h EXCEPT ![r] = LoadMembers(f.doc.members) @@ h["DEFAULT_SETTINGS"]]]

\* The file after save_settings(data)
save_settings(data) == [state |-> "text", doc |-> DumpDict(data)]

\* keys and values of settings, in the window's dict and in files
SettingKeys == {"customer_id", "lookback_days", "theme"}

SettingValues == {Str("123-456-7890"), PyInteger(30), Frac(35, 10)}

FileLiterals ==
    {JsonDump(v) : v \in SettingValues}
        \cup {JsonLiteral("null", PyNone), JsonLiteral("array", PyList)}

\* the dicts over at most MaxMembers of the keys
SettingsDicts ==
    UNION {[K -> SettingValues] : K \in {S \in SUBSET SettingKeys : Cardinality(S) <= MaxMembers}}

FileMembers == [key : SettingKeys, value : FileLiterals]

FileStates ==
    {[state |-> "absent", doc |-> [j |-> "garbage"]],
     [state |-> "unreadable", doc |-> [j |-> "garbage"]],
     [state |-> "text", doc |-> [j |-> "garbage"]]}
    \cup {[state |-> "text", doc |-> lit] : lit \in FileLiterals}
    \cup {[state |-> "text", doc |-> [j |-> "object", members |-> ms]]
          : ms \in SeqsUpTo(FileMembers, MaxMembers)}

NotWritten == [saved |-> FALSE, data |-> <<>>]

InitSettings ==
    /\ kind = "settings"
    /\ pc = "idle"
    /\ arg = NoArgs
    /\ args = NoArgs
    /\ df = EmptyFrame
    /\ losers = <<>>
    /\ result = NoResult
    /\ raised = ""
    /\ AccountIdle
    /\ GuiIdle
    /\ file \in FileStates
    /\ written = NotWritten
    /\ heap = [DEFAULT_SETTINGS |-> DEFAULT_SETTINGS, fresh |-> <<>>]
    /\ ret = ""
    /\ lraised = ""
    /\ touched = FALSE

\* save_settings(data)
SaveSettings ==
    /\ \E data \in SettingsDicts :
        /\ file' = save_settings(data)
        /\ written' = [saved |-> TRUE, data |-> data]
    /\ ret' = ""
    /\ touched' = FALSE
    /\ UNCHANGED <<heap, lraised>>
    /\ UNCHANGED <<call_vars, acct_vars, gui_vars>>

\* settings = load_settings()
LoadSettings ==
    /\ ret = ""
    /\ LET out == load_settings(file, heap) IN
        /\ ret' = out.ref
        /\ heap' = out.heap
        /\ lraised' = out.exc
    /\ UNCHANGED <<file, written, touched>>
    /\ UNCHANGED <<call_vars, acct_vars, gui_vars>>

\* the caller changes the mapping it got:  settings[key] = value
Mutate ==
    /\ ret # ""
    /\ ~touched
    /\ \E key \in SettingKeys, value \in SettingValues :
        heap' = [heap EXCEPT ![ret] = (key :> value) @@ @]
    /\ touched' = TRUE
    /\ UNCHANGED <<file, written, ret, lraised>>
    /\ UNCHANGED <<call_vars, acct_vars, gui_vars>>

NextSettings ==
    \/ SaveSettings
    \/ LoadSettings
    \/ Mutate

SpecSettings == InitSettings /\ [][NextSettings]_vars

-----------------------------------------------------------------------------
(* The argument as the caller passed it, read independently of the analyzers *)

RECURSIVE SetSum(_, _)
SetSum(I, f) ==
    IF I = {} THEN 0
    ELSE LET i == CHOOSE x \in I : TRUE IN f[i] + SetSum(I \ {i}, f)

\* the numeric value of a raw field, if it has one
HasNumber(x) == x.t \in {"num", "numstr"}

ArgRows == 1..Len(arg.rows)

\* the hours that occur in the argument
ArgHours == {arg.rows[i][HOUR].n : i \in {j \in ArgRows : HasNumber(arg.rows[j][HOUR])}}

\* the clicks the argument reports for hour h, malformed fields counting 0
ArgClicks(h) ==
    SetSum({i \in ArgRows : HasNumber(arg.rows[i][HOUR]) /\ arg.rows[i][HOUR].n = h},
           [i \in ArgRows |->
               IF HasNumber(arg.rows[i][CLICKS]) THEN arg.rows[i][CLICKS].n ELSE 0])

\* m is the median of the values f[i], i \in I (I non-empty)
IsMedianOf(m, I, f) ==
    LET n == Cardinality(I)
        Below(x) == Cardinality({k \in I : f[k] < x})
        Above(x) == Cardinality({k \in I : f[k] > x})
        AtMost(x) == Cardinality({k \in I : f[k] <= x})
        AtLeast(x) == Cardinality({k \in I : f[k] >= x})
    IN IF n % 2 = 1
       THEN \E i \in I :
              /\ FEq(m, Num(f[i]))
              /\ Below(f[i]) <= (n - 1) \div 2
              /\ Above(f[i]) <= (n - 1) \div 2
       ELSE \E i, j \in I :
              /\ i # j
              /\ f[i] <= f[j]
              /\ FEq(m, Frac(f[i] + f[j], 2))
              /\ Below(f[i]) <= n \div 2 - 1
              /\ AtMost(f[i]) >= n \div 2
              /\ Above(f[j]) <= n \div 2 - 1
              /\ AtLeast(f[j]) >= n \div 2

\* analyze_hourly has returned its full result (table, insight, actions)
HourlyDone ==
    /\ pc = "done"
    /\ kind = "hourly"
    /\ raised = ""
    /\ DOMAIN result = {"hourly_table", "insight", "actions"}

-----------------------------------------------------------------------------
(* Claims *)

\* C1: for a non-empty hourly table with the report's columns and any pair of
\* thresholds, the actions list holds exactly two strings if spike_ratio is
\* defined, spike_ratio >= spike_ratio_threshold and first_hour_clicks >=
\* min_clicks, and is empty otherwise.
C1_ActionsTwoOrNone ==
    HourlyDone =>
        LET ins == result.insight
            spike == /\ ins.spike_ratio # PyNone
                     /\ FGe(ins.spike_ratio, args.spike_ratio_threshold)
                     /\ ins.first_hour_clicks >= args.min_clicks
        IN Len(result.actions) = IF spike THEN 2 ELSE 0

\* a spike was reported: two actions
C1_Witness ==
    /\ HourlyDone
    /\ Len(result.actions) = 2
    /\ args.min_clicks = 50

\* C2: in the insight, spike_ratio equals first_hour_clicks / rest_median_clicks
\* whenever rest_median_clicks is a positive number, and is null in every other
\* case (median zero, or undefined because there is no other hour group).
C2_SpikeRatio ==
    HourlyDone =>
        LET ins == result.insight
            med == ins.rest_median_clicks
        IN IF IsNum(med) /\ med.n > 0
           THEN /\ IsNum(ins.spike_ratio)
                /\ ins.spike_ratio.d # 0
                /\ ins.spike_ratio.n * med.n = ins.first_hour_clicks * med.d * ins.spike_ratio.d
           ELSE ins.spike_ratio = PyNone

\* a ratio over a median that is the mean of two hours
C2_Witness ==
    /\ HourlyDone
    /\ IsNum(result.insight.spike_ratio)
    /\ result.insight.rest_median_clicks.d = 2
    /\ result.insight.first_hour_clicks > 0

\* C3: rest_median_clicks is the median of the per-hour summed clicks over all
\* hour groups except the group of first_active_hour, and is null exactly when
\* no other hour group exists; also when no hour has clicks and
\* first_active_hour is the default 0.
C3_RestMedian ==
    HourlyDone =>
        LET ins == result.insight
            others == ArgHours \ {ins.first_active_hour}
        IN IF others = {}
           THEN ins.rest_median_clicks = PyNone
           ELSE /\ IsNum(ins.rest_median_clicks)
                /\ IsMedianOf(ins.rest_median_clicks, others,
                              [h \in others |-> ArgClicks(h)])

\* a median over three other hours with distinct clicks
C3_Witness ==
    /\ HourlyDone
    /\ Cardinality(ArgHours \ {result.insight.first_active_hour}) = 3
    /\ Cardinality({ArgClicks(h) : h \in ArgHours}) = 4
    /\ IsNum(result.insight.rest_median_clicks)

\* C4: first_active_hour is the lowest hour whose summed clicks are > 0, and 0
\* when no hour has clicks; first_hour_clicks is the summed clicks of that
\* hour's group, 0 when the data has no group for that hour.
C4_FirstActiveHour ==
    HourlyDone =>
        LET ins == result.insight
            active == {h \in ArgHours : ArgClicks(h) > 0}
        IN /\ IF active = {}
              THEN ins.first_active_hour = 0
              ELSE /\ ins.first_active_hour \in active
                   /\ \A h \in active : ins.first_active_hour <= h
           /\ ins.first_hour_clicks =
                IF ins.first_active_hour \in ArgHours
                THEN ArgClicks(ins.first_active_hour)
                ELSE 0

\* the first active hour is not the first hour of the data, and several rows
\* make up its clicks
C4_Witness ==
    /\ HourlyDone
    /\ result.insight.first_active_hour = 1
    /\ 0 \in ArgHours
    /\ result.insight.first_hour_clicks = 110

\* no hour has clicks and the data has no hour 0: the default hour, 0 clicks
C4_DefaultHour ==
    /\ HourlyDone
    /\ ArgHours # {}
    /\ 0 \notin ArgHours
    /\ result.insight.first_active_hour = 0
    /\ result.insight.first_hour_clicks = 0

\* the argument has no rows or no columns
ArgEmpty == arg.rows = <<>> \/ arg.cols = {}

\* the calls that take a table
AnalyzerKinds == {"hourly", "search_terms", "placements", "campaigns"}

\* analyze_search_terms / analyze_placements has returned its list
FindingsDone ==
    /\ pc = "done"
    /\ kind \in {"search_terms", "placements"}
    /\ raised = ""
    /\ DOMAIN result \in {{"negatives"}, {"exclusions"}}

Recs == IF kind = "search_terms" THEN result.negatives ELSE result.exclusions

\* row i of the argument meets the thresholds of the report it belongs to:
\* clicks >= 20 (15), conversions = 0, cost_micros / 1,000,000 >= 10 (8)
Qualifies(i) ==
    LET row == arg.rows[i]
        min_clicks == IF kind = "search_terms" THEN 20 ELSE 15
        min_micros == IF kind = "search_terms" THEN 10000000 ELSE 8000000
    IN /\ HasNumber(row[CLICKS]) /\ row[CLICKS].n >= min_clicks * row[CLICKS].d
       /\ HasNumber(row[CONVERSIONS]) /\ row[CONVERSIONS].n = 0
       /\ HasNumber(row[COST_MICROS]) /\ row[COST_MICROS].n >= min_micros * row[COST_MICROS].d

Qualifying == {i \in ArgRows : Qualifies(i)}

Emitted == {losers[k] : k \in 1..Len(losers)}

\* the cost of row i of the argument, in currency units
ArgCost(i) == Frac(arg.rows[i][COST_MICROS].n, arg.rows[i][COST_MICROS].d * MICROS)

\* a text field of a row of the argument, None when the table has no such column
ArgText(i, col) == IF col \in arg.cols THEN arg.rows[i][col] ELSE PyNone

\* C5: for a search-term table with at most 25 qualifying rows, a row gets a
\* recommendation if and only if clicks >= 20, conversions == 0 and
\* cost_micros / 1,000,000 >= 10.00 (the boundaries 20 and 10.00 included); each
\* recommendation carries the term, the campaign and the cost of its row.
C5_SearchFilter ==
    (FindingsDone /\ kind = "search_terms" /\ Cardinality(Qualifying) <= 25) =>
        /\ Emitted = Qualifying
        /\ Len(result.negatives) = Cardinality(Qualifying)
        /\ Len(losers) = Len(result.negatives)
        /\ \A k \in 1..Len(losers) :
            LET rec == result.negatives[k]
            IN /\ rec.search_term = ArgText(losers[k], SEARCH_TERM)
               /\ rec.campaign = ArgText(losers[k], CAMPAIGN_NAME)
               /\ FEq(rec.est_cost, ArgCost(losers[k]))

\* the boundary row (20 clicks, $10.00) is emitted next to rows that are not
C5_Witness ==
    /\ FindingsDone
    /\ kind = "search_terms"
    /\ \E k \in 1..Len(losers) :
        /\ arg.rows[losers[k]][CLICKS].n = 20
        /\ arg.rows[losers[k]][COST_MICROS].n = 10000000
    /\ \E i \in ArgRows : i \notin Emitted /\ arg.rows[i][CONVERSIONS] = Num(1)
    /\ \E i \in ArgRows : i \notin Emitted /\ arg.rows[i][COST_MICROS].n = 5000000

\* C6: for both analyzers and n qualifying rows, the list has min(n, 25)
\* entries, est_cost never increases along it, and every entry costs at least
\* as much as every qualifying row that was left out.
C6_TopByCost ==
    FindingsDone =>
        /\ Len(Recs) = IF Cardinality(Qualifying) <= 25 THEN Cardinality(Qualifying) ELSE 25
        /\ \A k \in 1..(Len(Recs) - 1) : FGe(Recs[k].est_cost, Recs[k + 1].est_cost)
        /\ Emitted \subseteq Qualifying
        /\ \A k \in 1..Len(Recs) : \A i \in Qualifying \ Emitted :
            FGe(Recs[k].est_cost, ArgCost(i))

\* more than 25 rows qualify, and a cheaper one is left out
C6_Witness ==
    /\ FindingsDone
    /\ Cardinality(Qualifying) > 25
    /\ Len(Recs) = 25
    /\ \E i \in Qualifying \ Emitted : \A k \in 1..25 :
        FGt(Recs[k].est_cost, ArgCost(i))
    /\ \E j, k \in 1..25 : FGt(Recs[j].est_cost, Recs[k].est_cost)

\* C7: the placement identifier of an emitted row is the row's target URL if
\* that field is present and non-empty, and otherwise its display name; also
\* for a row without a target URL in a table where other rows have one.
C7_PlacementIdentifier ==
    (FindingsDone /\ kind = "placements") =>
        \A k \in 1..Len(losers) :
            LET row == arg.rows[losers[k]]
                has_url == /\ TARGET_URL \in arg.cols
                           /\ row[TARGET_URL].t = "str"
                           /\ row[TARGET_URL].s # ""
            IN result.exclusions[k].placement =
                 IF has_url THEN row[TARGET_URL] ELSE ArgText(losers[k], DISPLAY_NAME)

\* C8: given an empty table, analyze_hourly, analyze_search_terms and
\* analyze_placements return a result holding only the no-data insight, and
\* prepare_campaign_summary returns the empty table unchanged; none raises.
C8_EmptyInput ==
    (pc = "done" /\ kind \in AnalyzerKinds /\ ArgEmpty) =>
        /\ raised = ""
        /\ df = arg
        /\ kind = "hourly" => result = [insight |-> NO_HOURLY]
        /\ kind = "search_terms" => result = [insight |-> NO_SEARCH]
        /\ kind = "placements" => result = [insight |-> NO_PLACEMENT]
        /\ kind = "campaigns" => result = arg

\* an analyzer has run on a table that has its columns but no rows
C8_Witness ==
    /\ pc = "done"
    /\ kind = "hourly"
    /\ arg.rows = <<>>
    /\ arg.cols = HourlyCols
    /\ result = [insight |-> NO_HOURLY]

\* the columns an analyzer reads
ReadColumns ==
    CASE kind = "hourly" -> {HOUR, CLICKS, IMPRESSIONS, CONVERSIONS, COST_MICROS}
      [] kind = "campaigns" -> {COST_MICROS}
      [] OTHER -> {CLICKS, CONVERSIONS, COST_MICROS}

\* C9: a non-empty table that lacks one of the columns the analyzer reads
\* yields a no-data result; no analyzer raises on it.
C9_IncompleteInput ==
    (pc = "done" /\ kind \in AnalyzerKinds /\ ~ArgEmpty /\ ~(ReadColumns \subseteq arg.cols)) =>
        /\ raised = ""
        /\ kind # "campaigns" => DOMAIN result = {"insight"}

\* C10: micros_to_currency never raises: a number or the text of a number n
\* gives n / 1,000,000, every other value gives NaN.
C10_MicrosTotal ==
    (pc = "done" /\ kind = "micros") =>
        /\ raised = ""
        /\ IF HasNumber(arg)
           THEN /\ IsNum(result)
                /\ FEq(result, Frac(arg.n, arg.d * MICROS))
           ELSE result = NaN

\* the key paths of the scalar leaves of a nested mapping
RECURSIVE LeafPaths(_)
LeafPaths(m) ==
    UNION {IF m[key].k = "dict"
           THEN {<<key>> \o p : p \in LeafPaths(m[key].m)}
           ELSE {<<key>>}
           : key \in DOMAIN m}

\* the value a key path leads to
RECURSIVE ValueAt(_, _)
ValueAt(m, p) == IF Len(p) = 1 THEN m[p[1]].v ELSE ValueAt(m[p[1]].m, Tail(p))

\* 'k1.k2. ... .kn'
RECURSIVE Dotted(_)
Dotted(p) == IF Len(p) = 1 THEN p[1] ELSE p[1] \o "." \o Dotted(Tail(p))

\* every value is a scalar or a nested mapping
RECURSIVE NoLists(_)
NoLists(m) ==
    \A key \in DOMAIN m :
        /\ m[key].k # "list"
        /\ m[key].k = "dict" => NoLists(m[key].m)

\* df_from_rows has flattened one row of scalars and nested mappings
RowFlattened ==
    /\ pc = "done"
    /\ kind = "rows"
    /\ Len(arg) = 1
    /\ NoLists(arg[1])

\* the flattened row and the table hold every leaf under its dotted path,
\* and nothing else
LeavesReproduced ==
    /\ DOMAIN result[1] = {Dotted(p) : p \in LeafPaths(arg[1])}
    /\ df.cols = DOMAIN result[1]
    /\ \A p \in LeafPaths(arg[1]) :
        /\ result[1][Dotted(p)] = ValueAt(arg[1], p)
        /\ df.rows[1][Dotted(p)] = ValueAt(arg[1], p)

\* distinct leaves have distinct dotted paths, and the empty top-level key
\* does not hold a nested mapping
PathsDistinct ==
    /\ \A p, q \in LeafPaths(arg[1]) : Dotted(p) = Dotted(q) => p = q
    /\ ~("" \in DOMAIN arg[1] /\ arg[1][""].k = "dict")

\* C11 (as claimed): for every nested mapping with arbitrary string keys,
\* flatten_message holds exactly one entry 'k1.k2. ... .kn' per scalar leaf,
\* with the leaf's value, and the table built from it reproduces the leaves.
C11_FlattenArbitraryKeys == RowFlattened => LeavesReproduced

\* C11 (amended): the same, for mappings in which distinct leaves have distinct
\* dotted paths and the empty top-level key holds no nested mapping.
C11_FlattenDistinctPaths == (RowFlattened /\ PathsDistinct) => LeavesReproduced

\* a nested leaf next to a top-level leaf of the same name
C11_Witness ==
    /\ RowFlattened
    /\ PathsDistinct
    /\ <<"a", "b">> \in LeafPaths(arg[1])
    /\ <<"b">> \in LeafPaths(arg[1])
    /\ df.cols = {"a.b", "b"}
    /\ df.rows[1]["a.b"] # df.rows[1]["b"]

\* C15: for a non-empty campaign table, prepare_campaign_summary returns the
\* rows of its argument in some order, none added, dropped or duplicated, each
\* with cost = cost_micros / 1,000,000, and cost never increases from one row
\* to the next; an empty table is returned as it is.
C15_CampaignSummary ==
    (pc = "done" /\ kind = "campaigns") =>
        /\ raised = ""
        /\ IF ArgEmpty THEN result = arg
           ELSE /\ Len(result.rows) = Len(arg.rows)
                /\ {result.index[k] : k \in 1..Len(result.rows)} = ArgRows
                /\ \A k \in 1..Len(result.rows) :
                    LET row == arg.rows[result.index[k]] IN
                    /\ \A c \in arg.cols :
                        result.rows[k][c] =
                            IF HasNumber(row[c]) THEN Num(row[c].n) ELSE row[c]
                    /\ HasNumber(row[COST_MICROS])
                    /\ FEq(result.rows[k][COST], ArgCost(result.index[k]))
                /\ \A k \in 1..(Len(result.rows) - 1) :
                    FGe(result.rows[k][COST], result.rows[k + 1][COST])

-----------------------------------------------------------------------------
(* Claims on analyze_account and the presentation *)

\* a query of the run has failed
QueryFailed == \E k \in 1..Len(queries) : queries[k].raised # ""

\* the run has ended
AccountOver == apc \in {"returned", "raised"}

\* C12: in a run in which no query fails, the four queries hourly, search
\* terms, placements, campaigns are issued, each once; each analyzer runs
\* once, after its own query and on that query's rows; and the result with the
\* keys hourly, search_terms, placements, campaigns is returned only after
\* all four analyzers have finished.
C12_FourQueries ==
    /\ \A k \in 1..Len(analyzed) :
        /\ k <= Len(queries)
        /\ analyzed[k].report = queries[k].report
        /\ analyzed[k].frame = queries[k].frame
    /\ aresult # NoResult =>
        /\ Len(analyzed) = 4
        /\ DOMAIN aresult = {"hourly", "search_terms", "placements", "campaigns"}
    /\ (AccountOver /\ ~QueryFailed) =>
        /\ [k \in 1..Len(queries) |-> queries[k].report]
             = <<"hourly", "search_terms", "placements", "campaigns">>
        /\ [k \in 1..Len(analyzed) |-> analyzed[k].report]
             = <<"hourly", "search_terms", "placements", "campaigns">>
        /\ aresult # NoResult

\* C13: no query is issued twice; once a query has failed, it is the last
\* call of the run: the run ends with the very error the service raised, no
\* later query or analyzer runs, nothing is returned and nothing presented.
C13_NoRetryPropagate ==
    /\ \A j, k \in 1..Len(queries) : queries[j].report = queries[k].report => j = k
    /\ \A k \in 1..Len(queries) :
        queries[k].raised # "" =>
            /\ k = Len(queries)
            /\ Len(analyzed) = k - 1
            /\ apc = "raised"
            /\ aerror = queries[k].raised
            /\ aresult = NoResult
            /\ rpc = "idle"

\* the third query fails after two reports have been analyzed
C13_Witness ==
    /\ apc = "raised"
    /\ Len(queries) = 3
    /\ queries[3].raised = "TransportError"
    /\ aerror = "TransportError"
    /\ Len(analyzed) = 2

\* C14: for every result analyze_account returns, 'no data' results and
\* tables with NaN cells included, _render_results does not raise and writes
\* every widget, a NaN cost as "0.00" and a NaN rate as "-".
C14_RenderTotal ==
    rpc = "done" =>
        /\ rraised = ""
        /\ DOMAIN view = {"insight", "hourly", "actions", "search", "placements", "campaigns"}
        /\ \A i \in 1..Len(view.campaigns) :
            /\ IsNaN(aresult.campaigns.rows[i][COST]) => view.campaigns[i].Cost = Str("0.00")
            /\ IsNaN(aresult.campaigns.rows[i][CTR]) => view.campaigns[i].CTR = Str("-")
        /\ \A i \in 1..Len(view.hourly) :
            /\ IsNaN(aresult.hourly.hourly_table[i].ctr) => view.hourly[i].CTR = Str("-")
            /\ IsNaN(aresult.hourly.hourly_table[i].cvr) => view.hourly[i].CVR = Str("-")

-----------------------------------------------------------------------------
(* Claims on the window *)

\* the analysis threads that have started and not finished
InFlight == {i \in Runs : workers[i].pc \notin {"unborn", "done"}}

\* C16: at most one analysis thread is in flight at any time, and while one
\* is in flight the Run Analysis button is disabled.
C16_SingleWorker ==
    /\ Cardinality(InFlight) <= 1
    /\ InFlight # {} => run_btn = "disabled"

\* the status an analysis has to end with
ExpectedStatus(i) == IF workers[i].outcome = "ok" THEN STATUS_READY ELSE STATUS_FAILED

\* C17: every analysis that has been started leads to the callback of its
\* finally clause re-enabling the button, whether it succeeds or raises at
\* the client or at a step of analyze_account; and from then on the last
\* status it has set is "Analysis ready." if it succeeded and "Analysis
\* failed." if it raised.
C17_ReenabledAndStatus ==
    /\ \A i \in Runs : (workers[i].pc # "unborn") ~> reenabled[i]
    /\ [](\A i \in Runs : reenabled[i] => laststatus[i] = ExpectedStatus(i))

\* an analysis that had its token refreshed and then raised has re-enabled
\* the button, and another one has succeeded
C17_Witness ==
    \E i, j \in Runs :
        /\ reenabled[i]
        /\ workers[i].outcome = "failed"
        /\ laststatus[i] = STATUS_FAILED
        /\ reenabled[j]
        /\ workers[j].outcome = "ok"
        /\ laststatus[j] = STATUS_READY
        /\ run_btn = "normal"

-----------------------------------------------------------------------------
(* Claims on the settings file *)

\* the file holds a JSON object
FileIsObject == file.state = "text" /\ file.doc.j = "object"

\* the members of the file with key k
MembersOf(k) == {i \in 1..Len(file.doc.members) : file.doc.members[i].key = k}

\* the value the file gives to key k
FileValue(k) ==
    LET i == CHOOSE m \in MembersOf(k) : \A n \in MembersOf(k) : n <= m
    IN JsonLoad(file.doc.members[i].value)

C18_Changed ==
    /\ ret = "fresh"
    /\ touched
    /\ FileIsObject
    /\ Len(file.doc.members) = 2
    /\ Cardinality(MembersOf("customer_id")) = 2
    /\ heap[ret]["customer_id"] # DEFAULT_SETTINGS["customer_id"]

====
